---- MODULE Spec2Model ----
(***************************************************************************)
(* Magister: the instance controller (src/instance_controller.rs), the     *)
(* marketplace client's rent/fill logic and offer filter (src/vast.rs).    *)
(*                                                                         *)
(* One action is the code that runs between two .await points of the       *)
(* controller task; pc names the await the task is parked on.  The         *)
(* marketplace is the environment: each of its responses is chosen with \E.*)
(*                                                                         *)
(* Time.  An instance's creation_time (an Instant) is only ever read as    *)
(* creation_time.elapsed() and compared with the verification timeout, so  *)
(* a record keeps the elapsed whole seconds (time_since_creation), which   *)
(* saturate one second past the timeout; every comparison the code makes   *)
(* has the same outcome on the saturated value.                            *)
(***************************************************************************)
EXTENDS Integers, Sequences, FiniteSets, TLC

\* ------------------------------------------------------------------ bounds
MaxInstances == 2        \* largest config.number_instances explored
MaxTimeout == 1          \* largest contemplant_verification_timeout_secs
MaxBackoff == 2          \* largest vast_api_call_backoff_secs (fill spec)
MaxInstanceId == 3       \* instance ids the marketplace hands out: 1..MaxInstanceId
MaxRateLimited == 3      \* longest run of consecutive 429 answers explored
MaxLen == 3              \* longest offer list given to the offer filter
MaxListedId == 2         \* host and machine ids of those offers: 1..MaxListedId
MaxQueue == 2            \* most commands waiting in the channel (queue spec)
MaxSent == 3             \* most commands sent in a run (queue spec)

\* ----------------------------------------------------------------- helpers
Min(a, b) == IF a < b THEN a ELSE b

Range(s) == {s[k] : k \in 1..Len(s)}

Contains(list, x) == \E k \in 1..Len(list) : list[k] = x

\* Option<Vec<u64>>
None == [some |-> FALSE, list |-> <<>>]
Some(l) == [some |-> TRUE, list |-> l]

\* all orders in which the keys of a set can be visited
Perms(S) == {s \in [1..Cardinality(S) -> S] : \A a, b \in 1..Cardinality(S) : s[a] = s[b] => a = b}

\* ---------------------------------------------------------------- offers
\* The offers the marketplace knows, in the order of its score (best first).
\* Only the fields the controller reads are kept; dph_total is in cents.
Offer(id, host, machine, dph) == [id |-> id, host_id |-> host, machine_id |-> machine, dph_total |-> dph]

Catalogue == << Offer(101, 1, 1, 50), Offer(102, 2, 2, 70), Offer(103, 1, 3, 90) >>

OfferIds == {Catalogue[k].id : k \in 1..Len(Catalogue)}

\* an offer id no listing carries (a Drop or Verify for an unknown offer)
UnknownOfferId == Catalogue[Len(Catalogue)].id + 1

RECURSIVE SubSeqs(_)
SubSeqs(s) ==
    IF s = <<>> THEN {<<>>}
    ELSE LET rest == SubSeqs(Tail(s))
         IN rest \cup {<<Head(s)>> \o r : r \in rest}

\* request_offers: what the offers endpoint can answer on success, any part of
\* the catalogue, still in score order
OfferResponses == SubSeqs(Catalogue)

InstanceIds == 1..MaxInstanceId

VARIABLES
    config,                  \* Config: immutable after load
    pc,                      \* the await the controller task is parked on
    instances,               \* InstanceController.instances: instance_id -> VastInstance
    iter_order,              \* the order in which the HashMap yields its keys
    command,                 \* the variant of the command last taken from the channel
    resp,                    \* the reply sent for it
    offers,                  \* filtered offers of the fill / refill in progress
    i,                       \* index of the offer the fill / refill is at (1-based)
    new_instances,           \* accepted rents of the fill / refill in progress
    required_instances,      \* ensure_sufficient_instances: target - len at entry
    current_sleep_duration,  \* create_initial_instances
    last_run_rate_limited,   \* create_initial_instances
    instances_clone,         \* destroy pass: marked ids of the clone still to visit
    instances_dropped,       \* destroy pass: ids whose destroy returned Ok
    request_offers_result,   \* observed: last answer of the offers endpoint
    rent_outcome,            \* observed: last answer of request_new_instance
    consecutive_rate_limited,\* observed: length of the current run of 429 answers
    returned_instance_ids,   \* observed: the answer of get_instances just received
    zombie_instances,        \* observed: ids this pass removed as zombies
    destroy_calls,           \* observed: ids passed to drop_instance in this Tick
    channel,                 \* the mpsc channel: commands sent and not yet received
    waiting,                 \* commands whose send is suspended on a full channel, oldest first
    sent,                    \* observed: number of commands sent so far
    taken,                   \* observed: send number of the command last received
    client_handles,          \* live InstanceControllerClient handles (each owns a Sender)
    instances_received,      \* observed, when switched on: what instances() last returned
    tick                     \* observed, when switched on: the course of the Tick in progress

vars == << config, pc, instances, iter_order, command, resp, offers, i, new_instances,
           required_instances, current_sleep_duration, last_run_rate_limited,
           instances_clone, instances_dropped, request_offers_result, rent_outcome,
           consecutive_rate_limited, returned_instance_ids, zombie_instances,
           destroy_calls, channel, waiting, sent, taken, client_handles,
           instances_received, tick >>

\* groups used in UNCHANGED
table == << instances, iter_order >>
reply == << command, resp >>
fill_locals == << offers, i, new_instances, required_instances,
                  current_sleep_duration, last_run_rate_limited >>
destroy_locals == << instances_clone, instances_dropped >>
pass_observed == << returned_instance_ids, zombie_instances, destroy_calls, tick >>
observed == << request_offers_result, rent_outcome, consecutive_rate_limited, pass_observed >>
queue == << channel, waiting, sent, taken, client_handles >>
mpsc == << queue, instances_received >>

\* ------------------------------------------------------------------ config
MakeConfig(n, timeout, backoff, bh, bm, gh, gm) ==
    [ number_instances |-> n,
      contemplant_verification_timeout_secs |-> timeout,
      vast_api_call_backoff_secs |-> backoff,
      bad_hosts |-> bh, bad_machines |-> bm,
      good_hosts |-> gh, good_machines |-> gm ]

\* Config::load rejects number_instances = 0
Configs ==
    { MakeConfig(n, t, 1, bh, None, None, None) :
        n \in 1..MaxInstances, t \in 1..MaxTimeout, bh \in {None, Some(<<2>>)} }

NoResp == [status |-> "None", instance_id |-> 0, snapshot |-> [id \in {} |-> 0]]
NoAnswer == [ok |-> FALSE, ids |-> {}, called |-> FALSE]
NoOffersAnswer == [ok |-> FALSE, offers |-> <<>>, called |-> FALSE]

\* what is recorded of a Tick: the keys of the table when it began, the
\* instance the Drop just before it marked (0: none), whether get_instances
\* listed every key, the keys left unmarked by the deadline step, the keys
\* whose destroy returned Ok.  Nothing is recorded unless on.
BlankTick(on) ==
    [on |-> on, ids |-> {}, dropped |-> 0, listed |-> FALSE, unmarked |-> {}, destroyed |-> {}]

Recorded(t) == IF tick.on THEN t ELSE tick

\* ------------------------------------------------------------------ types.rs
\* fields of VastInstance that src/types.rs does not carry but the controller
\* reads: a new instance is unverified and was created now
NewInstanceExtras == [contemplant_verified |-> FALSE, time_since_creation |-> 0]

VastInstance_new_marked(instance_id, offer) ==
    [ offer |-> offer,
      instance_id |-> instance_id,
      should_drop |-> TRUE,
      contemplant_verified |-> NewInstanceExtras.contemplant_verified,
      time_since_creation |-> NewInstanceExtras.time_since_creation ]

VastInstance_new(instance_id, offer) ==
    [ offer |-> offer,
      instance_id |-> instance_id,
      should_drop |-> FALSE,
      contemplant_verified |-> NewInstanceExtras.contemplant_verified,
      time_since_creation |-> NewInstanceExtras.time_since_creation ]

\* creation_time.elapsed() after d more seconds
ElapsedCap == config.contemplant_verification_timeout_secs + 1
Aged(instance, d) ==
    [instance EXCEPT !.time_since_creation = Min(@ + d, ElapsedCap)]
AgedTable(t, d) == [id \in DOMAIN t |-> Aged(t[id], d)]
AgedSeq(s, d) == [k \in 1..Len(s) |-> Aged(s[k], d)]

\* ------------------------------------------------------------------ vast.rs
\* the closure of filter_offers: keep an offer when host_ok && machine_ok
OfferOk_either(cfg, offer) ==
    \/ (IF cfg.bad_hosts.some THEN ~Contains(cfg.bad_hosts.list, offer.host_id) ELSE TRUE)
    \/ (IF cfg.bad_machines.some THEN ~Contains(cfg.bad_machines.list, offer.machine_id) ELSE TRUE)

OfferOk(cfg, offer) ==
    LET host_ok == IF cfg.bad_hosts.some
                   THEN ~Contains(cfg.bad_hosts.list, offer.host_id)
                   ELSE TRUE
        machine_ok == IF cfg.bad_machines.some
                      THEN ~Contains(cfg.bad_machines.list, offer.machine_id)
                      ELSE TRUE
    IN host_ok /\ machine_ok

RECURSIVE filter_offers(_, _)
filter_offers(cfg, list) ==
    IF list = <<>> THEN <<>>
    ELSE (IF OfferOk(cfg, Head(list)) THEN <<Head(list)>> ELSE <<>>)
             \o filter_offers(cfg, Tail(list))

\* find_offers: request_offers, then filter_offers; Err when the request fails
find_offers(answer) ==
    IF answer.ok THEN [ok |-> TRUE, offers |-> filter_offers(config, answer.offers)]
    ELSE [ok |-> FALSE, offers |-> <<>>]

\* what request_offers can return
OffersAnswersOf(lists) ==
    {[ok |-> TRUE, offers |-> l, called |-> TRUE] : l \in lists}
        \cup {[ok |-> FALSE, offers |-> <<>>, called |-> TRUE]}

OffersAnswers == OffersAnswersOf(OfferResponses)

\* what request_new_instance can return: Ok(Some(id)), Ok(None) on 429, Err
RentAnswers ==
    {[kind |-> "accepted", instance_id |-> id] : id \in InstanceIds}
        \cup {[kind |-> "rate_limited", instance_id |-> 0],
              [kind |-> "failed", instance_id |-> 0]}

\* create_initial_instances, the Ok(None) arm: the duration it sleeps
NextSleepDuration_add ==
    current_sleep_duration + config.vast_api_call_backoff_secs

NextSleepDuration ==
    IF last_run_rate_limited
    THEN current_sleep_duration + config.vast_api_call_backoff_secs
    ELSE config.vast_api_call_backoff_secs

\* ------------------------------------------------------- HashMap of instances
\* collect() / insert() of (id, instance) pairs in order: a later pair with the
\* same key replaces the earlier one
RECURSIVE InsertAll(_, _)
InsertAll(t, pairs) ==
    IF pairs = <<>> THEN t
    ELSE LET inst == Head(pairs)
             keys == DOMAIN t \cup {inst.instance_id}
         IN InsertAll([id \in keys |-> IF id = inst.instance_id THEN inst ELSE t[id]],
                      Tail(pairs))

\* retain(): the surviving keys keep their relative order
Retain(t, keep) == [id \in DOMAIN t \cap keep |-> t[id]]
RetainOrder(order, keep) == SelectSeq(order, LAMBDA id : id \in keep)

\* after insertions a HashMap may yield its keys in any order, except that a
\* table whose key set did not change is not rehashed
OrdersAfterInsert(old_order, t) ==
    IF Range(old_order) = DOMAIN t THEN {old_order} ELSE Perms(DOMAIN t)

EmptyTable == [id \in {} |-> 0]

\* -------------------------------------------------------------------- Init
\* what the caller of instances() holds: nothing yet.  Nothing is kept unless on.
NothingReceived(on) == [on |-> on, some |-> FALSE, snapshot |-> [id \in {} |-> 0]]

InitAll(cfgs, observing, keeping) ==
    /\ config \in cfgs
    /\ pc = "validate_query"
    /\ instances = EmptyTable
    /\ iter_order = <<>>
    /\ command = "None"
    /\ resp = NoResp
    /\ offers = <<>>
    /\ i = 1
    /\ new_instances = <<>>
    /\ required_instances = 0
    /\ current_sleep_duration = 0
    /\ last_run_rate_limited = FALSE
    /\ instances_clone = <<>>
    /\ instances_dropped = {}
    /\ request_offers_result = NoOffersAnswer
    /\ rent_outcome = "none"
    /\ consecutive_rate_limited = 0
    /\ returned_instance_ids = NoAnswer
    /\ zombie_instances = {}
    /\ destroy_calls = {}
    /\ channel = <<>>
    /\ waiting = <<>>
    /\ sent = 0
    /\ taken = 0
    /\ client_handles = 1
    /\ instances_received = NothingReceived(keeping)
    /\ tick = BlankTick(observing)

InitState(cfgs, observing) == InitAll(cfgs, observing, FALSE)

InitWith(cfgs) == InitState(cfgs, FALSE)

Init == InitWith(Configs)

\* ----------------------------------------------------------------- startup
\* main.rs validate_query: one find_offers; startup stops when it fails, is
\* empty or is shorter than number_instances
ValidateQuery(answers) ==
    /\ pc = "validate_query"
    /\ \E answer \in answers :
         LET found == find_offers(answer)
         IN /\ request_offers_result' = answer
            /\ offers' = found.offers
            /\ pc' = IF found.ok /\ Len(found.offers) # 0
                        /\ ~(Len(found.offers) < config.number_instances)
                     THEN "create_initial_instances"
                     ELSE "exit"
    /\ UNCHANGED << config, mpsc, table, reply, i, new_instances, required_instances,
                    current_sleep_duration, last_run_rate_limited, destroy_locals,
                    rent_outcome, consecutive_rate_limited, pass_observed >>

validate_query == ValidateQuery(OffersAnswers)

\* create_initial_instances: if offers.len() < count, return Err
TooFewOffers_none(list, count) == Len(list) = 0

TooFewOffers(list, count) == Len(list) < count

\* create_initial_instances up to its first request_new_instance:
\* find_offers, then the length check
create_initial_instances ==
    /\ pc = "create_initial_instances"
    /\ \E answer \in OffersAnswers :
         LET found == find_offers(answer)
             count == config.number_instances
         IN /\ request_offers_result' = NoOffersAnswer
            /\ IF ~found.ok \/ TooFewOffers(found.offers, count)
               THEN /\ pc' = "exit"
                    /\ offers' = found.offers
                    /\ UNCHANGED << i, new_instances, required_instances,
                                    current_sleep_duration, last_run_rate_limited >>
               ELSE /\ pc' = "initial_request_new_instance"
                    /\ offers' = found.offers
                    /\ i' = 1
                    /\ new_instances' = <<>>
                    /\ current_sleep_duration' = config.vast_api_call_backoff_secs
                    /\ last_run_rate_limited' = FALSE
                    /\ UNCHANGED required_instances
    /\ UNCHANGED << config, mpsc, table, reply, destroy_locals, rent_outcome,
                    consecutive_rate_limited, pass_observed >>

\* create_initial_instances returned Ok: InstanceController::initialize collects
\* the pairs into the HashMap and InstanceControllerClient::new spawns the loop
initialize(pairs) ==
    /\ instances' = InsertAll(EmptyTable, pairs)
    /\ iter_order' \in Perms(DOMAIN instances')
    /\ pc' = "recv"
    /\ new_instances' = pairs
    /\ offers' = <<>>
    /\ i' = 1

\* top of the while loop: done, out of offers, or another rent
InitialLoop_same_offer(pairs, idx) ==
    IF Len(pairs) = config.number_instances
    THEN initialize(pairs)
    ELSE /\ pc' = "initial_request_new_instance"
         /\ new_instances' = pairs
         /\ i' = i
         /\ UNCHANGED << table, offers >>

InitialLoop(pairs, idx) ==
    IF Len(pairs) = config.number_instances
    THEN initialize(pairs)
    ELSE /\ pc' = IF idx > Len(offers) THEN "exit" ELSE "initial_request_new_instance"
         /\ new_instances' = pairs
         /\ i' = idx
         /\ UNCHANGED << table, offers >>

\* one answer of request_new_instance inside create_initial_instances
initial_request_new_instance ==
    /\ pc = "initial_request_new_instance"
    /\ \E answer \in RentAnswers :
         /\ rent_outcome' = answer.kind
         /\ CASE answer.kind = "accepted" ->
                   /\ last_run_rate_limited' = FALSE
                   /\ consecutive_rate_limited' = 0
                   /\ InitialLoop(Append(new_instances,
                                         VastInstance_new(answer.instance_id, offers[i])),
                                  i + 1)
                   /\ UNCHANGED current_sleep_duration
              [] answer.kind = "rate_limited" ->
                   /\ consecutive_rate_limited < MaxRateLimited
                   /\ consecutive_rate_limited' = consecutive_rate_limited + 1
                   /\ current_sleep_duration' = NextSleepDuration
                   /\ last_run_rate_limited' = TRUE
                   \* tokio::time::sleep(current_sleep_duration), then the same offer
                   /\ new_instances' = AgedSeq(new_instances, current_sleep_duration')
                   /\ UNCHANGED << pc, table, offers, i >>
              [] answer.kind = "failed" ->
                   /\ last_run_rate_limited' = FALSE
                   /\ consecutive_rate_limited' = 0
                   /\ InitialLoop(new_instances, i + 1)
                   /\ UNCHANGED current_sleep_duration
    /\ UNCHANGED << config, mpsc, reply, required_instances, destroy_locals,
                    request_offers_result, pass_observed >>

\* ------------------------------------------------------------------- time
\* one second passes while the task is parked
AdvanceTime ==
    /\ pc \notin {"exit", "loop_exited"}
    /\ instances' = AgedTable(instances, 1)
    /\ new_instances' = AgedSeq(new_instances, 1)
    /\ << instances', new_instances' >> # << instances, new_instances >>
    /\ UNCHANGED << config, mpsc, pc, iter_order, reply, offers, i, required_instances,
                    current_sleep_duration, last_run_rate_limited, destroy_locals,
                    observed >>

\* ------------------------------------------------- commands of the event loop
CommandOfferIds == OfferIds \cup {UnknownOfferId}

\* the loop task is parked on receiver.recv(): a command is taken only there,
\* and its handler runs to its end before the next recv
AtRecv_any == pc \notin {"validate_query", "create_initial_instances",
                         "initial_request_new_instance", "exit", "loop_exited"}

AtRecv == pc = "recv"

Reply(status, instance_id, snapshot) ==
    [status |-> status, instance_id |-> instance_id, snapshot |-> snapshot]

\* a command other than a Tick is taken: what was observed of the last pass
\* (or of the initial fill) is dropped
ClearObserved ==
    /\ rent_outcome' = "none"
    /\ consecutive_rate_limited' = 0
    /\ new_instances' = <<>>
    /\ tick' = BlankTick(tick.on)
    /\ request_offers_result' = NoOffersAnswer
    /\ UNCHANGED << returned_instance_ids, zombie_instances,
                    destroy_calls >>

\* the first key, in iteration order, whose instance was rented from offer_id;
\* 0 when there is none
FirstWithOffer_any(offer_id) ==
    LET hits == SelectSeq(iter_order, LAMBDA id : instances[id].offer.id = offer_id)
    IN IF hits = <<>> THEN (IF iter_order = <<>> THEN 0 ELSE Head(iter_order))
       ELSE Head(hits)

FirstWithOffer(offer_id) ==
    LET hits == SelectSeq(iter_order, LAMBDA id : instances[id].offer.id = offer_id)
    IN IF hits = <<>> THEN 0 ELSE Head(hits)

\* resp_sender.send(resp): a failed send (the receiver is gone) breaks out of
\* the loop and nothing was delivered
Send(r) ==
    \E receiver_alive \in BOOLEAN :
        /\ pc' = IF receiver_alive THEN "recv" ELSE "loop_exited"
        /\ resp' = IF receiver_alive THEN r ELSE NoResp

\* Drop: instance.should_drop = true
DropMark_toggle(instance) == [instance EXCEPT !.should_drop = ~@]

DropMark(instance) == [instance EXCEPT !.should_drop = TRUE]

\* the table after the Drop handler found target_instance: the map keeps its
\* keys, the record is marked in place
DropTable_remove(target_instance) ==
    Retain(instances, DOMAIN instances \ {target_instance})

DropTable(target_instance) ==
    [instances EXCEPT ![target_instance] = DropMark(@)]

\* http_handler drop: the status of the HTTP response for the reply received
\* (the controller's Result is returned as it is)
drop_http_status(r) ==
    IF r.status = "Ok" THEN 200
    ELSE IF r.status = "BAD_REQUEST" THEN 400
    ELSE 500

HandleDrop(offer_id) ==
    /\ AtRecv
    /\ command' = "Drop"
    /\ LET target_instance == FirstWithOffer(offer_id)
       IN /\ instances' = IF target_instance # 0
                          THEN DropTable(target_instance)
                          ELSE instances
          /\ Send(IF target_instance # 0
                  THEN Reply("Ok", target_instance, EmptyTable)
                  ELSE Reply("BAD_REQUEST", 0, EmptyTable))
    /\ ClearObserved
    /\ UNCHANGED << config, iter_order, offers, i, required_instances,
                    current_sleep_duration, last_run_rate_limited, destroy_locals >>

\* GetAll reply as the client hands it to the HTTP handler: the values of the
\* cloned map collected into a Vec, in the order the map yields them
instances_vec(snapshot, order) == [k \in 1..Len(order) |-> snapshot[order[k]]]

\* impl From<Offer> for InstanceOverview (the overview's instance_id is the
\* offer's id)
InstanceOverview_from(offer) ==
    [instance_id |-> offer.id, machine_id |-> offer.machine_id,
     host_id |-> offer.host_id, cost_per_hour |-> offer.dph_total]

RECURSIVE total_dph(_)
total_dph(list) ==
    IF list = <<>> THEN 0 ELSE Head(list).offer.dph_total + total_dph(Tail(list))

\* instances.retain(|instance| !instance.should_drop)
retain_not_should_drop_all(list) == list

retain_not_should_drop(list) == SelectSeq(list, LAMBDA instance : ~instance.should_drop)

\* http_handler summary, given the Vec the client returned
summary(list) ==
    LET kept == retain_not_should_drop(list)
    IN [total_cost_per_hour |-> total_dph(kept),
        num_instances |-> Len(kept),
        instance_overview |-> [k \in 1..Len(kept) |-> InstanceOverview_from(kept[k].offer)]]

\* self.instances.clone()
instances_clone_of_unmarked(t) == Retain(t, {id \in DOMAIN t : ~t[id].should_drop})

instances_clone_of(t) == t

HandleGetAll ==
    /\ AtRecv
    /\ command' = "GetAll"
    /\ Send(Reply("Instances", 0, instances_clone_of(instances)))
    /\ ClearObserved
    /\ UNCHANGED << config, table, offers, i, required_instances,
                    current_sleep_duration, last_run_rate_limited, destroy_locals >>

\* VerifyInstance: instance.contemplant_verified = true
VerifyMark_undrop(instance) ==
    [instance EXCEPT !.contemplant_verified = TRUE, !.should_drop = FALSE]

VerifyMark_toggle(instance) ==
    [instance EXCEPT !.contemplant_verified = ~instance.contemplant_verified]

VerifyMark(instance) == [instance EXCEPT !.contemplant_verified = TRUE]

\* InstanceControllerClient::verify: the send fails only when the loop, and
\* with it the receiver, is gone
client_verify_result == IF pc = "loop_exited" THEN "Err" ELSE "Ok"

\* http_handler verify, for an id that parsed: 200 when the command was sent
verify_http_status(result) == IF result = "Ok" THEN 200 ELSE 500

HandleVerifyInstance(offer_id) ==
    /\ AtRecv
    /\ command' = "VerifyInstance"
    /\ resp' = NoResp
    /\ LET hit == FirstWithOffer(offer_id)
       IN instances' = IF hit # 0
                       THEN [instances EXCEPT ![hit] = VerifyMark(@)]
                       ELSE instances
    /\ ClearObserved
    /\ UNCHANGED << config, pc, iter_order, offers, i, required_instances,
                    current_sleep_duration, last_run_rate_limited, destroy_locals >>

\* HandleUnfinishedBusiness up to its first await (get_instances)
HandleUnfinishedBusiness ==
    /\ AtRecv
    /\ command' = "HandleUnfinishedBusiness"
    /\ resp' = NoResp
    /\ pc' = "get_instances"
    /\ rent_outcome' = "none"
    /\ consecutive_rate_limited' = 0
    /\ new_instances' = <<>>
    /\ returned_instance_ids' = NoAnswer
    /\ zombie_instances' = {}
    /\ destroy_calls' = {}
    /\ tick' = Recorded([BlankTick(TRUE) EXCEPT
                            !.ids = DOMAIN instances,
                            !.dropped = IF command = "Drop" /\ resp.status = "Ok"
                                        THEN resp.instance_id ELSE 0])
    /\ request_offers_result' = NoOffersAnswer
    /\ UNCHANGED << config, table, offers, i, required_instances, current_sleep_duration,
                    last_run_rate_limited, destroy_locals >>

\* ------------------------------------------------------- the mpsc channel
\* the controller loop is running (the initial fill is over, the loop was not
\* left): the HTTP server and the ticker exist and their sends succeed
LoopRunning_before_fill == pc \notin {"validate_query", "exit", "loop_exited"}

LoopRunning ==
    pc \notin {"validate_query", "create_initial_instances",
               "initial_request_new_instance", "exit", "loop_exited"}

\* the capacity of the channel; the code's mpsc::channel(100) is explored with
\* a smaller one
ChannelCapacity == MaxQueue

\* a send finds no free slot: the channel is full, or slots that were freed
\* are already promised to the sends suspended before it
ChannelFull == Len(channel) >= ChannelCapacity \/ waiting # <<>>

\* sender.send(command).await on a full channel: the send is suspended
SendWhenFull_try_send(cmd) == UNCHANGED << channel, waiting >>

SendWhenFull(cmd) ==
    /\ waiting' = Append(waiting, cmd)
    /\ UNCHANGED channel

\* sender.send(command): the command is appended to the channel, at once when
\* there is a free slot
Enqueue(type, offer_id) ==
    /\ LoopRunning
    /\ sent < MaxSent
    /\ LET cmd == [type |-> type, offer_id |-> offer_id, seq |-> sent + 1]
       IN IF ChannelFull
          THEN SendWhenFull(cmd)
          ELSE /\ channel' = Append(channel, cmd)
               /\ UNCHANGED waiting
    /\ sent' = sent + 1
    /\ UNCHANGED << config, pc, table, reply, fill_locals, destroy_locals, observed, taken,
                    client_handles, instances_received >>

\* a slot is free: the oldest suspended send completes
send_resumes ==
    /\ LoopRunning
    /\ waiting # <<>>
    /\ Len(channel) < ChannelCapacity
    /\ channel' = Append(channel, Head(waiting))
    /\ waiting' = Tail(waiting)
    /\ UNCHANGED << config, pc, table, reply, fill_locals, destroy_locals, observed,
                    sent, taken, client_handles, instances_received >>

\* the loop has ended and the receiver is dropped: a suspended send returns Err
send_fails ==
    /\ pc = "loop_exited"
    /\ waiting # <<>>
    /\ waiting' = Tail(waiting)
    /\ UNCHANGED << config, pc, table, reply, fill_locals, destroy_locals, observed,
                    channel, sent, taken, client_handles, instances_received >>

\* InstanceControllerClient::drop / verify / instances, and the ticker task
client_drop(offer_id) == client_handles > 0 /\ Enqueue("Drop", offer_id)
client_verify(offer_id) == client_handles > 0 /\ Enqueue("VerifyInstance", offer_id)
client_instances == client_handles > 0 /\ Enqueue("GetAll", 0)
ticker == Enqueue("HandleUnfinishedBusiness", 0)

\* the control plane goes away (the HTTP server stops and MagisterState is
\* dropped): the client's Sender is dropped.  A handler suspended in a send
\* still holds the state.
drop_client_handles ==
    /\ LoopRunning
    /\ client_handles > 0
    /\ \A k \in 1..Len(waiting) : waiting[k].type = "HandleUnfinishedBusiness"
    /\ client_handles' = client_handles - 1
    /\ UNCHANGED << config, pc, table, reply, fill_locals, destroy_locals, observed,
                    channel, waiting, sent, taken, instances_received >>

\* sender_clone, moved into the ticker task when the loop starts; the task
\* leaves its own loop, and drops the Sender, only when a send fails
ticker_handles == 1

\* the Senders of the channel that are alive while the loop runs
Senders == client_handles + ticker_handles

\* self.receiver.recv().await: Some(command) when the channel holds one;
\* None when it is empty and every Sender is dropped; pending otherwise
recv_result ==
    IF channel # <<>> THEN "Some"
    ELSE IF Senders = 0 THEN "None"
    ELSE "Pending"

\* receiver.recv(): the command the loop gets next
NextCommand_last == channel[Len(channel)]

NextCommand == Head(channel)

\* the loop is parked on recv and gets a command of the given type
Recv(type) ==
    /\ AtRecv
    /\ recv_result = "Some"
    /\ NextCommand.type = type
    /\ channel' = SelectSeq(channel, LAMBDA c : c.seq # NextCommand.seq)
    /\ taken' = NextCommand.seq
    /\ UNCHANGED << waiting, sent, client_handles >>

\* InstanceControllerClient::instances after the send: receiver.await yields
\* the map that was sent, if the caller is still there to receive it
instances_returns ==
    instances_received' =
        IF instances_received.on /\ resp'.status = "Instances"
        THEN [on |-> TRUE, some |-> TRUE, snapshot |-> resp'.snapshot]
        ELSE instances_received

RecvDrop ==
    Recv("Drop") /\ HandleDrop(NextCommand.offer_id) /\ UNCHANGED instances_received
RecvVerifyInstance ==
    /\ Recv("VerifyInstance")
    /\ HandleVerifyInstance(NextCommand.offer_id)
    /\ UNCHANGED instances_received
RecvGetAll == Recv("GetAll") /\ HandleGetAll /\ instances_returns
RecvHandleUnfinishedBusiness ==
    /\ Recv("HandleUnfinishedBusiness")
    /\ HandleUnfinishedBusiness
    /\ UNCHANGED instances_received

\* a command that is received as soon as it is sent: the channel stays empty
DeliverDrop(offer_id) == HandleDrop(offer_id) /\ UNCHANGED mpsc
DeliverVerifyInstance(offer_id) == HandleVerifyInstance(offer_id) /\ UNCHANGED mpsc
DeliverGetAll == HandleGetAll /\ instances_returns /\ UNCHANGED queue
DeliverHandleUnfinishedBusiness == HandleUnfinishedBusiness /\ UNCHANGED mpsc

\* ------------------------------------------------------ reconciliation pass
\* get_instances: Ok(ids the marketplace lists for the account) or Err.  The
\* account may hold instances that are not this Magister's.
GetInstancesAnswers ==
    {[ok |-> TRUE, ids |-> ids, called |-> TRUE] : ids \in SUBSET InstanceIds}
        \cup {[ok |-> FALSE, ids |-> {}, called |-> TRUE]}

\* the ids retained by correct_active_instance_count
NotZombies_all(answer) == DOMAIN instances

NotZombies_inverted(answer) ==
    {id \in DOMAIN instances : id \notin answer.ids}

NotZombies(answer) ==
    LET zombies == {id \in DOMAIN instances : id \notin answer.ids}
    IN DOMAIN instances \ zombies

\* the Err arm of the match on get_instances
get_instances_failed_never(answer) == FALSE

get_instances_failed(answer) == ~answer.ok

correct_active_instance_count ==
    /\ pc = "get_instances"
    /\ \E answer \in GetInstancesAnswers :
         /\ returned_instance_ids' = answer
         /\ tick' = Recorded([tick EXCEPT
                                 !.listed = answer.ok /\ DOMAIN instances \subseteq answer.ids])
         /\ IF get_instances_failed(answer)
            THEN UNCHANGED << table, zombie_instances >>
            ELSE /\ instances' = Retain(instances, NotZombies(answer))
                 /\ iter_order' = RetainOrder(iter_order, NotZombies(answer))
                 /\ zombie_instances' = DOMAIN instances \ DOMAIN instances'
    /\ pc' = "check_contemplant_verification"
    /\ UNCHANGED << config, mpsc, reply, fill_locals, destroy_locals, request_offers_result,
                    rent_outcome, consecutive_rate_limited, destroy_calls >>

\* the test of check_contemplant_verification for one instance
VerificationOverdue_late(instance) ==
    /\ ~instance.contemplant_verified
    /\ instance.time_since_creation > config.contemplant_verification_timeout_secs + 1

VerificationOverdue_reversed(instance) ==
    /\ ~instance.contemplant_verified
    /\ instance.time_since_creation < config.contemplant_verification_timeout_secs

VerificationOverdue_verified_too(instance) ==
    instance.time_since_creation > config.contemplant_verification_timeout_secs

VerificationOverdue(instance) ==
    /\ ~instance.contemplant_verified
    /\ instance.time_since_creation > config.contemplant_verification_timeout_secs

\* (variant: the handler goes on to the refill, the destroy pass is not run)
check_contemplant_verification_then_refill ==
    /\ pc = "check_contemplant_verification"
    /\ instances' = [id \in DOMAIN instances |->
                       IF VerificationOverdue(instances[id])
                       THEN [instances[id] EXCEPT !.should_drop = TRUE]
                       ELSE instances[id]]
    /\ returned_instance_ids' = NoAnswer
    /\ tick' = Recorded([tick EXCEPT
                            !.unmarked = {id \in DOMAIN instances : ~instances'[id].should_drop}])
    /\ pc' = "ensure_sufficient_instances"
    /\ UNCHANGED << config, mpsc, iter_order, reply, fill_locals, destroy_locals,
                    request_offers_result, rent_outcome, consecutive_rate_limited,
                    zombie_instances, destroy_calls >>

\* check_contemplant_verification, then the destroy pass up to its first
\* drop_instance: the clone is walked in iteration order, unmarked instances
\* are skipped
check_contemplant_verification ==
    /\ pc = "check_contemplant_verification"
    /\ instances' = [id \in DOMAIN instances |->
                       IF VerificationOverdue(instances[id])
                       THEN [instances[id] EXCEPT !.should_drop = TRUE]
                       ELSE instances[id]]
    /\ instances_clone' = SelectSeq(iter_order, LAMBDA id : instances'[id].should_drop)
    /\ instances_dropped' = {}
    /\ returned_instance_ids' = NoAnswer
    /\ tick' = Recorded([tick EXCEPT
                            !.unmarked = {id \in DOMAIN instances : ~instances'[id].should_drop}])
    /\ pc' = "drop_instance"
    /\ UNCHANGED << config, mpsc, iter_order, reply, fill_locals, request_offers_result,
                    rent_outcome, consecutive_rate_limited, zombie_instances,
                    destroy_calls >>

\* the HTTP status the delete endpoint can answer with
DestroyStatuses == {200, 404, 429, 500}

\* request_destroy_instance: Ok for a success status, Err for any other
request_destroy_instance(status) == status \in 200..299

\* the destroy loop after one answer: on to the next entry of the clone
RestOfClone_abort(ok) == IF ok THEN Tail(instances_clone) ELSE <<>>

RestOfClone_retry(ok) == IF ok THEN Tail(instances_clone) ELSE instances_clone

RestOfClone(ok) == Tail(instances_clone)

\* one answer of drop_instance in the destroy pass
drop_instance ==
    /\ pc = "drop_instance"
    /\ instances_clone # <<>>
    /\ LET instance_id == Head(instances_clone)
       IN /\ destroy_calls' = destroy_calls \cup {instance_id}
          /\ \E status \in DestroyStatuses :
               LET ok == request_destroy_instance(status)
               IN /\ instances_dropped' = IF ok THEN instances_dropped \cup {instance_id}
                                          ELSE instances_dropped
                  /\ instances_clone' = RestOfClone(ok)
    /\ UNCHANGED << config, mpsc, pc, table, reply, fill_locals, request_offers_result,
                    rent_outcome, consecutive_rate_limited, returned_instance_ids,
                    zombie_instances, tick >>

\* the keys the retain that closes the destroy pass keeps
NotDropped_inverted == DOMAIN instances \cap instances_dropped

NotDropped_all == DOMAIN instances

NotDropped == DOMAIN instances \ instances_dropped

\* end of the destroy pass: retain what was not dropped
retain_not_dropped ==
    /\ pc = "drop_instance"
    /\ instances_clone = <<>>
    /\ instances' = Retain(instances, NotDropped)
    /\ iter_order' = RetainOrder(iter_order, NotDropped)
    /\ tick' = Recorded([tick EXCEPT !.destroyed = instances_dropped])
    /\ instances_dropped' = {}
    /\ pc' = "ensure_sufficient_instances"
    /\ zombie_instances' = {}
    /\ destroy_calls' = {}
    /\ UNCHANGED << config, mpsc, reply, fill_locals, instances_clone, request_offers_result,
                    rent_outcome, consecutive_rate_limited, returned_instance_ids >>

\* the pass is over: the locals of ensure_sufficient_instances go out of scope
\* (what was accepted stays observable until the next command is taken)
EndOfPass ==
    /\ pc' = "recv"
    /\ offers' = <<>>
    /\ i' = 1
    /\ required_instances' = 0

\* if self.instances.len() < self.config.number_instances
BelowTarget_or_at == Cardinality(DOMAIN instances) <= config.number_instances

BelowTarget == Cardinality(DOMAIN instances) < config.number_instances

\* ensure_sufficient_instances up to find_offers
ensure_sufficient_instances ==
    /\ pc = "ensure_sufficient_instances"
    /\ IF BelowTarget
       THEN /\ required_instances' = config.number_instances - Cardinality(DOMAIN instances)
            /\ pc' = "find_offers"
            /\ UNCHANGED << offers, i >>
       ELSE EndOfPass
    /\ UNCHANGED << config, mpsc, table, reply, new_instances, current_sleep_duration,
                    last_run_rate_limited, destroy_locals, observed >>

\* the loop over new_instances that closes ensure_sufficient_instances
InsertNew_none(pairs) ==
    /\ UNCHANGED table
    /\ new_instances' = pairs
    /\ EndOfPass

InsertNew(pairs) ==
    /\ instances' = InsertAll(instances, pairs)
    /\ iter_order' \in OrdersAfterInsert(iter_order, instances')
    /\ new_instances' = pairs
    /\ EndOfPass

\* the answer of find_offers in ensure_sufficient_instances; an empty list
\* leaves the for loop nothing to do
refill_find_offers ==
    /\ pc = "find_offers"
    /\ \E answer \in OffersAnswers :
         /\ LET found == find_offers(answer)
            IN IF ~found.ok \/ found.offers = <<>>
               THEN /\ EndOfPass
                    /\ UNCHANGED << table, new_instances >>
               ELSE /\ offers' = found.offers
                    /\ i' = 1
                    /\ new_instances' = <<>>
                    /\ pc' = "request_new_instance"
                    /\ UNCHANGED << table, required_instances >>
         /\ request_offers_result' = answer
    /\ UNCHANGED << config, mpsc, reply, current_sleep_duration, last_run_rate_limited,
                    destroy_locals, rent_outcome, consecutive_rate_limited, pass_observed >>

\* if new_instances.len() == required_instances { break; }
EnoughAccepted_never(pairs) == FALSE

EnoughAccepted_first(pairs) == Len(pairs) >= 1

EnoughAccepted(pairs) == Len(pairs) = required_instances

\* bottom of the for loop: break when enough were accepted, else next offer
RefillLoop(pairs) ==
    IF EnoughAccepted(pairs) \/ i + 1 > Len(offers)
    THEN InsertNew(pairs)
    ELSE /\ new_instances' = pairs
         /\ i' = i + 1
         /\ UNCHANGED << pc, table, offers, required_instances >>

\* what ensure_sufficient_instances does with one answer of request_new_instance
RefillOnAnswer_retry(answer) ==
    CASE answer.kind = "accepted" ->
           RefillLoop(Append(new_instances, VastInstance_new(answer.instance_id, offers[i])))
      [] answer.kind = "rate_limited" ->
           UNCHANGED << pc, table, offers, i, new_instances, required_instances >>
      [] answer.kind = "failed" ->
           RefillLoop(new_instances)

RefillOnAnswer_failed_ends(answer) ==
    CASE answer.kind = "accepted" ->
           RefillLoop(Append(new_instances, VastInstance_new(answer.instance_id, offers[i])))
      [] answer.kind = "rate_limited" ->
           InsertNew(new_instances)
      [] answer.kind = "failed" ->
           InsertNew(new_instances)

RefillOnAnswer(answer) ==
    CASE answer.kind = "accepted" ->
           RefillLoop(Append(new_instances, VastInstance_new(answer.instance_id, offers[i])))
      [] answer.kind = "rate_limited" ->
           InsertNew(new_instances)
      [] answer.kind = "failed" ->
           RefillLoop(new_instances)

request_new_instance ==
    /\ pc = "request_new_instance"
    /\ \E answer \in RentAnswers :
         /\ rent_outcome' = answer.kind
         /\ consecutive_rate_limited' =
              IF answer.kind = "rate_limited" THEN consecutive_rate_limited + 1 ELSE 0
         /\ RefillOnAnswer(answer)
    /\ request_offers_result' = NoOffersAnswer
    /\ UNCHANGED << config, mpsc, reply, current_sleep_duration, last_run_rate_limited,
                    destroy_locals, pass_observed >>

\* ------------------------------------------------------------ specifications
Startup ==
    \/ validate_query
    \/ create_initial_instances
    \/ initial_request_new_instance

Commands ==
    \/ \E offer_id \in CommandOfferIds : DeliverDrop(offer_id)
    \/ \E offer_id \in CommandOfferIds : DeliverVerifyInstance(offer_id)
    \/ DeliverGetAll
    \/ DeliverHandleUnfinishedBusiness

Pass ==
    \/ correct_active_instance_count
    \/ check_contemplant_verification
    \/ drop_instance
    \/ retain_not_dropped
    \/ ensure_sufficient_instances
    \/ refill_find_offers
    \/ request_new_instance

Next == Startup \/ Commands \/ Pass \/ AdvanceTime

Spec == Init /\ [][Next]_vars

TypeOK ==
    /\ pc \in {"validate_query", "create_initial_instances", "initial_request_new_instance",
               "exit", "recv", "loop_exited", "get_instances",
               "check_contemplant_verification", "drop_instance",
               "ensure_sufficient_instances", "find_offers", "request_new_instance"}
    /\ DOMAIN instances \subseteq InstanceIds
    /\ Range(iter_order) = DOMAIN instances
    /\ Len(iter_order) = Cardinality(DOMAIN instances)
    /\ \A id \in DOMAIN instances : instances[id].instance_id = id

\* The initial fill alone, with the backoff drawn from 1..MaxBackoff
FillConfigs ==
    { MakeConfig(n, t, b, bh, None, None, None) :
        n \in 1..MaxInstances, t \in 1..MaxTimeout, b \in 1..MaxBackoff,
        bh \in {None, Some(<<2>>)} }

InitFill == InitWith(FillConfigs)

NextFill == Startup \/ AdvanceTime

SpecFill == InitFill /\ [][NextFill]_vars

\* The startup with calls that return: an awaited marketplace call or sleep
\* of the startup ends, and a run of rate-limited answers is finite
SpecFillFair == InitFill /\ [][NextFill]_vars /\ WF_vars(Startup)

\* The loop fed through the channel: clients and the ticker send while the
\* loop is busy, the loop receives when it is parked on recv.  One instance,
\* commands about the first offer of the catalogue.
QueueConfigs == { MakeConfig(1, 1, 1, None, None, None, None) }

QueueOfferIds == {Catalogue[1].id}

InitQueue == InitWith(QueueConfigs)

Sends ==
    \/ \E offer_id \in QueueOfferIds : client_drop(offer_id)
    \/ \E offer_id \in QueueOfferIds : client_verify(offer_id)
    \/ client_instances
    \/ ticker
    \/ send_resumes
    \/ send_fails
    \/ drop_client_handles

Receives ==
    \/ RecvDrop
    \/ RecvVerifyInstance
    \/ RecvGetAll
    \/ RecvHandleUnfinishedBusiness

NextQueue == Startup \/ Sends \/ Receives \/ Pass \/ AdvanceTime

SpecQueue == InitQueue /\ [][NextQueue]_vars

\* The same loop, with what the callers of instances() received kept on record
InitSnapshot == InitAll(QueueConfigs, FALSE, TRUE)

SpecSnapshot == InitSnapshot /\ [][NextQueue]_vars

\* The program with the course of each Tick recorded, for a target of two
VacateConfigs == { MakeConfig(MaxInstances, 1, 1, None, None, None, None) }

InitVacate == InitState(VacateConfigs, TRUE)

SpecVacate == InitVacate /\ [][Next]_vars

\* The program, for a target of one, with Ticks that keep being handled and,
\* for each instance, a
\* destroy that does not fail forever: the ticker sends a Tick every interval
\* and the loop, parked on recv, takes it; a marketplace call of a pass
\* returns; of the destroy calls made for an instance, should there be
\* infinitely many, one succeeds.
destroy_succeeds(id) ==
    /\ drop_instance
    /\ id \in instances_dropped' \ instances_dropped

InitDrain == InitWith(QueueConfigs)

SpecDrain ==
    /\ InitDrain
    /\ [][Next]_vars
    /\ WF_vars(DeliverHandleUnfinishedBusiness)
    /\ WF_vars(Pass)
    /\ \A id \in InstanceIds : SF_vars(destroy_succeeds(id))

\* The program, for a target of two, with marketplace calls that return,
\* whatever they answer: a pass suspended on a call goes on
InitTick == InitWith(VacateConfigs)

SpecTick == InitTick /\ [][Next]_vars /\ WF_vars(Pass)

\* find_offers on arbitrary offer lists and arbitrary black- and allowlists
RECURSIVE SortedSeq(_)
SortedSeq(S) ==
    IF S = {} THEN <<>>
    ELSE LET m == CHOOSE x \in S : \A y \in S : x <= y
         IN <<m>> \o SortedSeq(S \ {m})

IdLists == {None} \cup {Some(SortedSeq(S)) : S \in SUBSET (1..MaxListedId)}

FilterConfigs ==
    { MakeConfig(1, 1, 1, bh, bm, gh, gm) :
        bh \in IdLists, bm \in IdLists, gh \in IdLists, gm \in {None, Some(<<1>>)} }

HostMachinePairs == (1..MaxListedId) \X (1..MaxListedId)

FilterLists ==
    UNION { { [k \in 1..n |-> Offer(100 + k, l[k][1], l[k][2], 10)] :
                l \in [1..n -> HostMachinePairs] } : n \in 0..MaxLen }

InitFilter == InitWith(FilterConfigs)

NextFilter == ValidateQuery(OffersAnswersOf(FilterLists))

SpecFilter == InitFilter /\ [][NextFilter]_vars

\* ------------------------------------------------------------------ claims
Size == Cardinality(DOMAIN instances)

AfterPass == pc = "recv" /\ command = "HandleUnfinishedBusiness"

\* C1  Count bound: whenever the controller is at rest (after the initial fill
\* and after every command, so after every completed Tick) the table holds at
\* most config.number_instances instances.
CountBound == pc = "recv" => Size <= config.number_instances

\* a Tick whose refill rented brought the table to the target
CountBoundWitness ==
    /\ AfterPass
    /\ rent_outcome = "accepted"
    /\ config.number_instances = 2
    /\ Size = config.number_instances
    /\ Len(new_instances) = 1

\* the ids of pairs are pairwise distinct and none is a key of t
FreshIds(pairs, t) ==
    /\ \A a, b \in 1..Len(pairs) : pairs[a].instance_id = pairs[b].instance_id => a = b
    /\ \A a \in 1..Len(pairs) : pairs[a].instance_id \notin DOMAIN t

\* C2  Convergence: when the refill of a Tick ends, if find_offers had returned
\* at least number_instances filtered offers and every rent call of the refill
\* (there were i of them) was accepted with a fresh instance id, the table
\* holds exactly number_instances instances.
Convergence ==
    [][ ( /\ pc = "request_new_instance"
          /\ pc' = "recv"
          /\ Len(offers) >= config.number_instances
          /\ Len(new_instances') = i
          /\ FreshIds(new_instances', instances) )
        => Cardinality(DOMAIN instances') = config.number_instances ]_vars

\* a Tick that started from an empty table and rented the whole target
ConvergenceWitness ==
    /\ AfterPass
    /\ rent_outcome = "accepted"
    /\ config.number_instances = 2
    /\ Len(new_instances) = 2
    /\ FreshIds(new_instances, EmptyTable)
    /\ Size = 2

\* C3  Drop idempotence: when the last command was a Drop that marked an
\* instance (reply Ok) and the same offer id is dropped again, the table and
\* its iteration order are unchanged and the reply is the same.
DropIdempotent ==
    [][ \A offer_id \in CommandOfferIds :
          ( /\ command = "Drop"
            /\ resp.status = "Ok"
            /\ instances[resp.instance_id].offer.id = offer_id
            /\ HandleDrop(offer_id)
            /\ pc' = "recv" )
          => /\ instances' = instances
             /\ iter_order' = iter_order
             /\ resp' = resp ]_vars

\* a Drop was answered Ok for an offer that two instances were rented from
DropIdempotentWitness ==
    /\ pc = "recv"
    /\ command = "Drop"
    /\ resp.status = "Ok"
    /\ instances[resp.instance_id].should_drop
    /\ \E other \in DOMAIN instances :
         /\ other # resp.instance_id
         /\ instances[other].offer.id = instances[resp.instance_id].offer.id
         /\ ~instances[other].should_drop

\* the step of a Tick that applies check_contemplant_verification
DeadlineStep == pc = "check_contemplant_verification" /\ pc' = "drop_instance"

\* C4 as claimed: after the deadline check of a Tick, every unverified instance
\* whose age is at least the timeout (exactly the timeout included) is marked.
DeadlineInclusive ==
    [][ DeadlineStep =>
          \A id \in DOMAIN instances' :
              ( /\ ~instances'[id].contemplant_verified
                /\ instances'[id].time_since_creation
                     >= config.contemplant_verification_timeout_secs )
              => instances'[id].should_drop ]_vars

\* C4  Verification deadline (amended): after the deadline check of a Tick,
\* every unverified instance whose age is strictly greater than the timeout is
\* marked should_drop.
DeadlineStrict ==
    [][ DeadlineStep =>
          \A id \in DOMAIN instances' :
              ( /\ ~instances'[id].contemplant_verified
                /\ instances'[id].time_since_creation
                     > config.contemplant_verification_timeout_secs )
              => instances'[id].should_drop ]_vars

\* the check has just marked an overdue instance that the destroy pass will visit
DeadlineWitness ==
    /\ pc = "drop_instance"
    /\ destroy_calls = {}
    /\ \E id \in DOMAIN instances :
         /\ ~instances[id].contemplant_verified
         /\ instances[id].time_since_creation > config.contemplant_verification_timeout_secs
         /\ instances[id].should_drop
         /\ instances_clone # <<>>
         /\ Head(instances_clone) = id

\* C5  Zombie cleanup: when get_instances succeeds, the table after the zombie
\* step is the table before it restricted to the returned ids (absent ids are
\* removed, present ones are kept unchanged), and for the rest of the pass no
\* destroy call is made for an id removed that way.
ZombieCleanup ==
    [][ /\ ( pc = "get_instances" /\ returned_instance_ids'.ok )
           => /\ instances' = [id \in DOMAIN instances \cap returned_instance_ids'.ids
                                 |-> instances[id]]
              /\ zombie_instances' = DOMAIN instances \ returned_instance_ids'.ids
        /\ destroy_calls' \cap zombie_instances' = {} ]_vars

\* a pass removed a zombie, kept and marked another instance and has called
\* destroy for that one
ZombieCleanupWitness ==
    /\ pc = "drop_instance"
    /\ zombie_instances # {}
    /\ destroy_calls # {}
    /\ instances_clone = <<>>

\* C6  Backoff sequence of the initial fill: after the k-th rate-limited
\* answer of a run of consecutive ones, the duration slept is k times
\* vast_api_call_backoff_secs; a run that follows an accepted or failed rent
\* starts again at k = 1.
BackoffSequence ==
    ( pc = "initial_request_new_instance" /\ rent_outcome = "rate_limited" )
        => current_sleep_duration
             = consecutive_rate_limited * config.vast_api_call_backoff_secs

\* a run of three, with base 2, after an earlier offer was already consumed
BackoffSequenceWitness ==
    /\ pc = "initial_request_new_instance"
    /\ rent_outcome = "rate_limited"
    /\ config.vast_api_call_backoff_secs = 2
    /\ consecutive_rate_limited = 3
    /\ current_sleep_duration = 6
    /\ i = 2

\* the step in which the refill of a Tick gets a rate-limited answer
RateLimitedStep == pc = "request_new_instance" /\ rent_outcome' = "rate_limited"

IdSet(opt) == IF opt.some THEN Range(opt.list) ELSE {}

Blacklisted(offer) ==
    \/ offer.host_id \in IdSet(config.bad_hosts)
    \/ offer.machine_id \in IdSet(config.bad_machines)

Allowlisted(offer) ==
    \/ offer.host_id \in IdSet(config.good_hosts)
    \/ offer.machine_id \in IdSet(config.good_machines)

Filtered == request_offers_result.called /\ request_offers_result.ok

\* C8  Blacklist filtering: the filtered list is the input list without the
\* offers whose host is in bad_hosts or whose machine is in bad_machines, in
\* the input order; an absent blacklist removes nothing.
BlacklistFiltering ==
    Filtered =>
        /\ offers = SelectSeq(request_offers_result.offers, LAMBDA o : ~Blacklisted(o))
        /\ ( ~config.bad_hosts.some /\ ~config.bad_machines.some )
              => offers = request_offers_result.offers

\* both blacklists removed an offer and one offer in between survived
BlacklistFilteringWitness ==
    /\ Filtered
    /\ Len(request_offers_result.offers) = 3
    /\ Len(offers) = 1
    /\ offers[1] = request_offers_result.offers[2]
    /\ request_offers_result.offers[1].host_id \in IdSet(config.bad_hosts)
    /\ request_offers_result.offers[3].machine_id \in IdSet(config.bad_machines)
    /\ request_offers_result.offers[3].host_id \notin IdSet(config.bad_hosts)

\* C9  Allowlist priority: in the filtered list no offer outside both
\* allowlists precedes an offer inside one of them.
AllowlistPriority ==
    Filtered =>
        \A a, b \in 1..Len(offers) :
            ( a < b /\ Allowlisted(offers[b]) ) => Allowlisted(offers[a])

\* a refill has just replaced the instance registered under id
Replaced(id) ==
    /\ pc = "request_new_instance"
    /\ pc' = "recv"
    /\ \E k \in 1..Len(new_instances') : new_instances'[k].instance_id = id

\* C10  should_drop is monotonic: an instance that is marked and stays in the
\* table stays marked, whatever command or step is taken (a Verify included).
\* A record that a refill overwrites with a newly rented instance of the same
\* id is a new instance.
ShouldDropMonotonic ==
    [][ \A id \in DOMAIN instances \cap DOMAIN instances' :
          ( instances[id].should_drop /\ ~Replaced(id) )
          => instances'[id].should_drop ]_vars

\* the last command was a Verify and the only instance, overdue before it was
\* verified, is verified and still marked
ShouldDropMonotonicWitness ==
    /\ pc = "recv"
    /\ command = "VerifyInstance"
    /\ \E id \in DOMAIN instances :
         /\ DOMAIN instances = {id}
         /\ instances[id].should_drop
         /\ instances[id].contemplant_verified

\* I3 of the instance table: every instance is verified, or no older than the
\* verification timeout, or marked should_drop
I3 ==
    \A id \in DOMAIN instances :
        \/ instances[id].contemplant_verified
        \/ instances[id].time_since_creation <= config.contemplant_verification_timeout_secs
        \/ instances[id].should_drop

\* C11 as claimed: I3 holds in every reachable state, between Ticks included.
I3Always == I3

\* I3 for one instance record
I3Holds(instance) ==
    \/ instance.contemplant_verified
    \/ instance.time_since_creation <= config.contemplant_verification_timeout_secs
    \/ instance.should_drop

\* the fill or refill that ends in this step inserts the record now under id
Inserted(id) ==
    /\ pc \in {"initial_request_new_instance", "request_new_instance"}
    /\ pc' = "recv"
    /\ \E k \in 1..Len(new_instances') : new_instances'[k] = instances'[id]

\* C11  I3 (amended): I3 holds in the state that follows the verification
\* deadline step of every Tick.  No command and no other step of a Tick makes
\* an instance violate it: an instance comes to violate I3 only by ageing in
\* the table or by being inserted, already overdue, at the end of a fill or
\* refill.
I3AfterDeadlineStep ==
    [][ /\ DeadlineStep => I3'
        /\ \A id \in DOMAIN instances' :
             ( ~I3Holds(instances'[id]) /\ ~Inserted(id) )
             => /\ id \in DOMAIN instances
                /\ \/ ~I3Holds(instances[id])
                   \/ instances'[id] = Aged(instances[id], 1)
      ]_vars

\* right after a deadline step: one unverified instance is overdue and marked,
\* another unverified one is exactly at the timeout and unmarked
I3Witness ==
    /\ pc = "drop_instance"
    /\ destroy_calls = {}
    /\ I3
    /\ \E a, b \in DOMAIN instances :
         /\ ~instances[a].contemplant_verified
         /\ instances[a].time_since_creation > config.contemplant_verification_timeout_secs
         /\ instances[a].should_drop
         /\ instances_clone = <<a>>
         /\ ~instances[b].contemplant_verified
         /\ instances[b].time_since_creation = config.contemplant_verification_timeout_secs
         /\ ~instances[b].should_drop

\* the step is the Drop handler
DropStep == \E offer_id \in CommandOfferIds : HandleDrop(offer_id)

\* C12  Drop only marks: the Drop handler leaves the key set of the table and
\* its order as they were, makes no marketplace call (it goes straight back to
\* the channel or out of the loop) and issues no destroy; a GetAll that
\* follows a Drop answered Ok still returns the marked instance; a destroy
\* call is only ever issued by the destroy pass of a Tick.
DropOnlyMarks ==
    [][ /\ DropStep =>
             /\ DOMAIN instances' = DOMAIN instances
             /\ iter_order' = iter_order
             /\ pc' \in {"recv", "loop_exited"}
             /\ destroy_calls' = destroy_calls
        /\ ( command = "Drop" /\ resp.status = "Ok" /\ HandleGetAll /\ pc' = "recv" )
             => /\ resp.instance_id \in DOMAIN resp'.snapshot
                /\ resp'.snapshot[resp.instance_id].should_drop
        /\ ( destroy_calls' \ destroy_calls # {} )
             => ( command = "HandleUnfinishedBusiness" /\ pc = "drop_instance" )
      ]_vars

\* a GetAll was answered with an instance that only a Drop can have marked (it
\* is not older than the timeout) and that is still in the table
DropOnlyMarksWitness ==
    /\ pc = "recv"
    /\ command = "GetAll"
    /\ resp.status = "Instances"
    /\ \E id \in DOMAIN resp.snapshot :
         /\ resp.snapshot[id].should_drop
         /\ resp.snapshot[id].time_since_creation = 0
         /\ id \in DOMAIN instances
         /\ Cardinality(DOMAIN resp.snapshot) = 2

\* no instance of the table was rented from offer_id
NoInstanceOf(offer_id) == \A id \in DOMAIN instances : instances[id].offer.id # offer_id

\* C13  Drop of an unknown offer: a Drop whose offer id matches no instance
\* leaves the table and its order unchanged, and the reply that reaches the
\* HTTP handler is BAD_REQUEST, which is answered with HTTP 400.
DropUnknownOffer ==
    [][ \A offer_id \in CommandOfferIds :
          ( NoInstanceOf(offer_id) /\ HandleDrop(offer_id) )
          => /\ instances' = instances
             /\ iter_order' = iter_order
             /\ pc' = "recv" => ( resp'.status = "BAD_REQUEST" /\ drop_http_status(resp') = 400 )
      ]_vars

\* a Drop was answered BAD_REQUEST while the table held two unmarked instances
DropUnknownOfferWitness ==
    /\ pc = "recv"
    /\ command = "Drop"
    /\ resp.status = "BAD_REQUEST"
    /\ drop_http_status(resp) = 400
    /\ Size = 2
    /\ \A id \in DOMAIN instances : ~instances[id].should_drop

\* the step is the retain that closes the destroy pass and id is one of the
\* marked instances whose destroy call returned Ok
DestroyedOk(id) ==
    /\ pc = "drop_instance"
    /\ instances_clone = <<>>
    /\ command = "HandleUnfinishedBusiness"
    /\ instances[id].should_drop
    /\ id \in destroy_calls
    /\ id \in instances_dropped

\* the step is the zombie step, get_instances succeeded and did not list id
ZombieRemoved(id) ==
    /\ pc = "get_instances"
    /\ command = "HandleUnfinishedBusiness"
    /\ returned_instance_ids'.ok
    /\ id \notin returned_instance_ids'.ids

\* the record under id is still the instance it was: same offer, not younger,
\* verification not undone
StillThere(id) ==
    /\ id \in DOMAIN instances'
    /\ instances'[id].offer = instances[id].offer
    /\ instances'[id].time_since_creation >= instances[id].time_since_creation
    /\ instances[id].contemplant_verified => instances'[id].contemplant_verified

\* C15 as claimed: an instance leaves the table only by a successful destroy
\* or by zombie detection, and no step replaces an instance.
LeaveOnlyByDestroyOrZombie ==
    [][ \A id \in DOMAIN instances :
          StillThere(id) \/ DestroyedOk(id) \/ ZombieRemoved(id) ]_vars

\* C15  How instances leave the table (amended): an instance present before a
\* step and absent after it was marked and destroyed with an Ok answer in that
\* Tick, or was not listed by a successful get_instances in that Tick; an
\* instance is replaced only at the end of a Tick's refill, by a newly rented
\* instance for which the marketplace returned the same instance id.
LeaveOrReplaced ==
    [][ \A id \in DOMAIN instances :
          \/ StillThere(id)
          \/ ( id \notin DOMAIN instances' /\ ( DestroyedOk(id) \/ ZombieRemoved(id) ) )
          \/ ( id \in DOMAIN instances' /\ Replaced(id) /\ command = "HandleUnfinishedBusiness" )
      ]_vars

\* a Tick removed one instance as a zombie and is about to retain without
\* another, whose destroy returned Ok
LeaveOrReplacedWitness ==
    /\ pc = "drop_instance"
    /\ instances_clone = <<>>
    /\ zombie_instances # {}
    /\ instances_dropped # {}
    /\ instances_dropped = DOMAIN instances

\* C14  A vanished reply receiver is not fatal: after the Drop or GetAll
\* handler has tried to reply, the controller is back at the channel, ready
\* for the next command, whether or not the reply could be delivered; the
\* loop is never left (the ticker task holds a sender, so the command channel
\* does not close while the loop runs).
ReceiverGoneNotFatal ==
    [][ ( DropStep \/ HandleGetAll ) => pc' = "recv" ]_vars

\* C16  Commands are processed FIFO: the command the loop receives is always
\* the one sent right after the command it received before, so the commands
\* are applied in the order of their sends and whatever waits in the channel
\* was sent after the command being applied (a Drop sent before a Tick was
\* applied before that Tick began, a Drop sent after it waits until the Tick
\* is over).
CommandsFifo ==
    [][ /\ taken' # taken => taken' = taken + 1
        /\ \A k \in 1..Len(channel') : channel'[k].seq > taken'
      ]_vars

\* a Tick, the second command sent, is in its destroy pass, about to destroy
\* the instance that the Drop sent before it marked, while a Drop sent after
\* it waits in the channel
CommandsFifoWitness ==
    /\ pc = "drop_instance"
    /\ instances_clone # <<>>
    /\ instances[Head(instances_clone)].time_since_creation = 0
    /\ taken = 2
    /\ Len(channel) = 1
    /\ channel[1].type = "Drop"
    /\ channel[1].seq = 3

\* a Tick is in progress: the handler of HandleUnfinishedBusiness is suspended
\* on a marketplace call or between two of its steps
InPass ==
    pc \in {"get_instances", "check_contemplant_verification", "drop_instance",
            "ensure_sufficient_instances", "find_offers", "request_new_instance"}

\* C17  One command at a time: a command is taken from the channel only when
\* the loop is parked on recv, so never while a Tick is in progress; during a
\* Tick the commands that arrive only queue up, no reply is sent, no instance
\* is verified and should_drop changes only in the Tick's own deadline step;
\* a GetAll is answered with the table as it is between two commands.
OneCommandAtATime ==
    [][ /\ taken' # taken => ( pc = "recv" /\ ~InPass )
        /\ InPass =>
             /\ taken' = taken
             /\ Len(channel') >= Len(channel)
             /\ SubSeq(channel', 1, Len(channel)) = channel
             /\ command' = command
             /\ resp' = resp
             /\ \A id \in DOMAIN instances \cap DOMAIN instances' :
                  ( ~Replaced(id) ) =>
                    /\ instances'[id].contemplant_verified = instances[id].contemplant_verified
                    /\ instances'[id].should_drop # instances[id].should_drop => DeadlineStep
        /\ ( command' = "GetAll" /\ taken' # taken /\ pc' = "recv" )
             => resp'.snapshot = instances
      ]_vars

\* a Tick is suspended on a rent call of its refill while a Drop and a second
\* Tick, sent meanwhile, wait in the channel
OneCommandAtATimeWitness ==
    /\ pc = "request_new_instance"
    /\ command = "HandleUnfinishedBusiness"
    /\ Len(channel) = 2
    /\ channel[1].type = "Drop"
    /\ channel[2].type = "HandleUnfinishedBusiness"
    /\ channel[1].seq = taken + 1

\* the steps of a Tick in the order of the handler; the step after the last is
\* the return to recv
TickOrder ==
    << "get_instances", "check_contemplant_verification", "drop_instance",
       "ensure_sufficient_instances", "find_offers", "request_new_instance", "recv" >>

TickPosition(p) == CHOOSE k \in 1..Len(TickOrder) : TickOrder[k] = p

\* C18  Fixed step order in a Tick: a Tick starts with the zombie step, every
\* step hands over to the next one in the order zombie, deadline, destroy,
\* refill (the refill may end the Tick at any of its steps); when the destroy
\* pass ends, destroy was called in this Tick for every marked instance, those
\* the deadline step of this Tick marked included; and the refill computes
\* its need from the table left by the destroy pass.
TickStepOrder ==
    [][ /\ ( pc = "recv" /\ pc' # pc /\ pc' # "loop_exited" ) => pc' = "get_instances"
        /\ ( InPass /\ pc' # pc ) =>
             \/ TickPosition(pc') = TickPosition(pc) + 1
             \/ ( TickPosition(pc) >= 4 /\ pc' = "recv" )
        /\ DeadlineStep =>
             Range(instances_clone') = {id \in DOMAIN instances' : instances'[id].should_drop}
        /\ ( pc = "drop_instance" /\ pc' = "ensure_sufficient_instances" ) =>
             /\ \A id \in DOMAIN instances : instances[id].should_drop => id \in destroy_calls
             /\ DOMAIN instances' = DOMAIN instances \ instances_dropped
        /\ ( pc = "ensure_sufficient_instances" /\ pc' = "find_offers" ) =>
             /\ instances_dropped = {}
             /\ required_instances' = config.number_instances - Size
      ]_vars

\* a Tick removed a zombie, marked an overdue instance in its deadline step
\* and its destroy pass has destroyed it; the refill comes next
TickStepOrderWitness ==
    /\ pc = "drop_instance"
    /\ instances_clone = <<>>
    /\ zombie_instances # {}
    /\ Size = 1
    /\ \E id \in instances_dropped \cap destroy_calls :
         /\ ~instances[id].contemplant_verified
         /\ instances[id].time_since_creation > config.contemplant_verification_timeout_secs
         /\ instances[id].should_drop

\* the step ends a Tick that followed a Drop answered Ok, began with a full
\* table, had every key listed by get_instances, destroyed the dropped
\* instance with an Ok answer, and whose refill had a rent accepted
VacateTick ==
    /\ tick.on
    /\ pc = "request_new_instance"
    /\ pc' = "recv"
    /\ tick.dropped # 0
    /\ Cardinality(tick.ids) = config.number_instances
    /\ tick.listed
    /\ tick.dropped \in tick.destroyed
    /\ Len(new_instances') >= 1

\* the instances of the table the Tick began with, the dropped one apart
OtherInstances == tick.ids \ {tick.dropped}

VacatedAndRefilled ==
    /\ tick.dropped \notin DOMAIN instances'
    /\ OtherInstances \subseteq DOMAIN instances'
    /\ Cardinality(DOMAIN instances') = config.number_instances

\* the rents accepted in the refill returned instance ids that are new to the
\* table the Tick began with and to each other
RentedFresh ==
    /\ FreshIds(new_instances', instances)
    /\ \A k \in 1..Len(new_instances') : new_instances'[k].instance_id \notin tick.ids

\* C19 as claimed: after a Drop of a live offer and one such Tick the dropped
\* instance is absent, the other instances are present and the table holds
\* exactly number_instances instances (taking for granted that the marketplace
\* hands out new instance ids).
VacateAndRefill ==
    [][ ( VacateTick /\ RentedFresh ) => VacatedAndRefilled ]_vars

\* C19  Vacate and refill in one Tick (amended): the same, provided that no
\* other instance is marked when the destroy pass begins (none was dropped,
\* none is unverified and overdue at the deadline step) and that the accepted
\* rents return instance ids that are new to the table.
VacateAndRefillHealthy ==
    [][ ( VacateTick /\ RentedFresh /\ OtherInstances \subseteq tick.unmarked )
        => VacatedAndRefilled ]_vars

\* such a Tick is over: the dropped instance is gone, the other one is still
\* there, unverified and within its deadline when checked, and a newly rented
\* one fills the slot
VacateAndRefillWitness ==
    /\ AfterPass
    /\ tick.on
    /\ tick.dropped # 0
    /\ Cardinality(tick.ids) = 2
    /\ tick.listed
    /\ tick.destroyed = {tick.dropped}
    /\ OtherInstances \subseteq tick.unmarked
    /\ Len(new_instances) = 1
    /\ Size = 2
    /\ DOMAIN instances = OtherInstances \cup {new_instances[1].instance_id}
    /\ \A id \in OtherInstances : ~instances[id].contemplant_verified

\* C20  Initial fill fails on insufficient supply: when the filtered offers
\* that create_initial_instances finds are fewer than number_instances, it
\* returns an error without a rent call: startup ends with an empty table, the
\* loop is never started, nothing is sent to it, and it stays so.
InitialFillFails ==
    [][ /\ ( pc = "create_initial_instances" /\ Len(offers') < config.number_instances )
             => /\ pc' = "exit"
                /\ rent_outcome' = "none"
                /\ new_instances' = <<>>
                /\ instances' = EmptyTable
        /\ pc = "exit" => ( pc' = "exit" /\ instances' = EmptyTable /\ channel' = <<>> )
      ]_vars

\* startup ended in create_initial_instances, which found one offer where
\* two instances are wanted (the query validation before it had found enough)
InitialFillFailsWitness ==
    /\ pc = "exit"
    /\ ~request_offers_result.called
    /\ config.number_instances = 2
    /\ Len(offers) = 1
    /\ rent_outcome = "none"
    /\ instances = EmptyTable

\* the step ends the initial fill with the controller started, and every offer
\* the fill went through was accepted (none failed: the fill is at offer
\* number_instances), under instance ids that differ from each other
ColdStartAllAccepted ==
    /\ pc = "initial_request_new_instance"
    /\ pc' = "recv"
    /\ i = config.number_instances
    /\ FreshIds(new_instances', EmptyTable)

\* C21  Cold start with sufficient offers: when the initial fill ends with
\* every rent accepted, the offers rented are the first number_instances
\* offers of the filtered list, in list order; the table holds exactly the
\* number_instances returned instance ids, each with an unmarked record that
\* carries the offer it was rented from.
ColdStart ==
    [][ ColdStartAllAccepted =>
          /\ Len(new_instances') = config.number_instances
          /\ \A k \in 1..Len(new_instances') : new_instances'[k].offer = offers[k]
          /\ DOMAIN instances' = {new_instances'[k].instance_id : k \in 1..Len(new_instances')}
          /\ Cardinality(DOMAIN instances') = config.number_instances
          /\ \A k \in 1..Len(new_instances') :
               LET id == new_instances'[k].instance_id
               IN /\ instances'[id].instance_id = id
                  /\ instances'[id].offer = offers[k]
                  /\ ~instances'[id].should_drop
      ]_vars

\* the controller has just started with two instances, rented from the first
\* two offers of the catalogue
ColdStartWitness ==
    /\ pc = "recv"
    /\ command = "None"
    /\ rent_outcome = "accepted"
    /\ config.number_instances = 2
    /\ Size = 2
    /\ Len(new_instances) = 2
    /\ new_instances[1].offer = Catalogue[1]
    /\ new_instances[2].offer = Catalogue[2]
    /\ \A k \in 1..2 : instances[new_instances[k].instance_id] = new_instances[k]
    /\ \A id \in DOMAIN instances : ~instances[id].should_drop

\* C22  Commands sent while the loop is suspended are not lost: every command
\* accepted into the channel is received and answered by the loop, so the loop
\* never ends while a Drop or a GetAll that was sent to it still waits in the
\* channel (once the loop has ended nothing receives or answers any more).
NoCommandLost ==
    pc = "loop_exited" =>
        \A k \in 1..Len(channel) : channel[k].type \notin {"Drop", "GetAll"}

\* the commands sent and not yet received, oldest first
Pending == channel \o waiting

\* C23 as claimed: a producer never waits for space in the channel (a send
\* that finds it full returns at once, the command dropped with an error).
NoProducerWaits == waiting = <<>>

\* C23  Backpressure (amended): a producer whose send finds the channel full
\* waits: while the loop runs, the commands in the channel followed by the
\* suspended ones are exactly the commands sent and not yet received, in send
\* order, none dropped; a suspended send ends by putting its command into the
\* channel, and ends with an error only when the loop has ended.
ProducerWaits ==
    [][ /\ LoopRunning' =>
             /\ Len(Pending') = sent' - taken'
             /\ \A k \in 1..Len(Pending') : Pending'[k].seq = taken' + k
        /\ Len(waiting') < Len(waiting) =>
             \/ channel' = Append(channel, Head(waiting))
             \/ pc = "loop_exited"
        /\ Len(channel') <= ChannelCapacity
      ]_vars

\* the channel is full and the third command sent waits for a slot
ProducerWaitsWitness ==
    /\ LoopRunning
    /\ Len(channel) = ChannelCapacity
    /\ Len(waiting) = 1
    /\ waiting[1].seq = ChannelCapacity + 1
    /\ taken = 0

\* ------------------------------------------------------------------ C24
RECURSIVE CostOf(_, _)
CostOf(snapshot, ids) ==
    IF ids = {} THEN 0
    ELSE LET id == CHOOSE x \in ids : TRUE
         IN snapshot[id].offer.dph_total + CostOf(snapshot, ids \ {id})

Remaining(snapshot) == {id \in DOMAIN snapshot : ~snapshot[id].should_drop}

\* C24  Summary content: for every GetAll reply, in whatever order the map
\* yields its values, the summary counts exactly the instances of the snapshot
\* that are not marked should_drop, its total is the sum of their offers'
\* dph_total, and its overview has one entry per such instance (the entries are
\* the overviews of these instances' offers, each instance used once).
SummaryContent ==
    resp.status = "Instances" =>
        \A order \in Perms(DOMAIN resp.snapshot) :
            LET s == summary(instances_vec(resp.snapshot, order))
                remaining == Remaining(resp.snapshot)
            IN /\ s.num_instances = Cardinality(remaining)
               /\ s.total_cost_per_hour = CostOf(resp.snapshot, remaining)
               /\ Len(s.instance_overview) = Cardinality(remaining)
               /\ \E p \in Perms(remaining) :
                    \A k \in 1..Len(p) :
                        s.instance_overview[k] = InstanceOverview_from(resp.snapshot[p[k]].offer)

\* a snapshot with one marked and one unmarked instance: the summary reports
\* the unmarked one only
SummaryContentWitness ==
    /\ resp.status = "Instances"
    /\ Cardinality(DOMAIN resp.snapshot) = 2
    /\ Cardinality(Remaining(resp.snapshot)) = 1
    /\ \A order \in Perms(DOMAIN resp.snapshot) :
         LET s == summary(instances_vec(resp.snapshot, order))
         IN /\ s.num_instances = 1
            /\ s.total_cost_per_hour > 0
            /\ Len(s.instance_overview) = 1

\* ------------------------------------------------------------------ C25
\* C25  Engine shutdown: once the control plane's client handles are dropped
\* and the loop, done with its commands, is parked on recv with nothing left to
\* receive, recv returns None (the channel is closed), which is what makes the
\* `while let Some(command)` loop exit.
ShutdownOnHandlesDropped ==
    ( client_handles = 0 /\ AtRecv /\ Pending = <<>> ) => recv_result = "None"

\* ------------------------------------------------------------------ C26
ListingFailed(answer) == answer.called /\ ~answer.ok

\* C26  A failed get_instances is not evidence of removal: the step that
\* receives the failure leaves the table as it is (no instance removed, no flag
\* changed) and goes on to the verification-deadline step; that step, taken
\* after the failure, marks exactly the overdue unverified instances, removes
\* none and starts the destroy pass over every marked instance; the destroy
\* pass ends in the refill.
ListingFailureKeepsTable ==
    [][ /\ ( pc = "get_instances" /\ pc' # pc /\ ListingFailed(returned_instance_ids') )
            => /\ table' = table
               /\ pc' = "check_contemplant_verification"
        /\ ( pc = "check_contemplant_verification" /\ pc' # pc
                  /\ ListingFailed(returned_instance_ids) )
            => /\ pc' = "drop_instance"
               /\ DOMAIN instances' = DOMAIN instances
               /\ \A id \in DOMAIN instances :
                    /\ instances'[id].should_drop
                         = ( instances[id].should_drop \/ VerificationOverdue(instances[id]) )
                    /\ instances'[id].contemplant_verified = instances[id].contemplant_verified
               /\ Range(instances_clone')
                    = {id \in DOMAIN instances : instances'[id].should_drop}
        /\ ( pc = "drop_instance" /\ pc' # pc ) => pc' = "ensure_sufficient_instances"
      ]_vars

\* the listing has just failed on a full table that holds an unverified
\* instance past its deadline: the deadline step is next
ListingFailureKeepsTableWitness ==
    /\ pc = "check_contemplant_verification"
    /\ ListingFailed(returned_instance_ids)
    /\ Cardinality(DOMAIN instances) = config.number_instances
    /\ \E id \in DOMAIN instances :
         ~instances[id].should_drop /\ VerificationOverdue(instances[id])

\* ------------------------------------------------------------------ C27
Marked == {id \in DOMAIN instances : instances[id].should_drop}

\* the ids whose destroy failed in the pass in progress
DestroyFailed == destroy_calls \ instances_dropped

\* C27  A failed destroy keeps the instance: every status but a success one
\* (429 included) is a failure; a drop_instance answer, failed or not, changes
\* nothing in the table, starts no sleep and leaves the loop at the next marked
\* instance; when the destroy pass ends every marked instance was attempted,
\* the ones whose destroy failed stay in the table with should_drop = true, and
\* the refill is next.  Every destroy pass starts over all marked instances of
\* the table, so an instance left marked is attempted again in the next Tick
\* that still finds it there.
DestroyFailureKeeps ==
    [][ /\ \A status \in DestroyStatuses :
             request_destroy_instance(status) = ( status = 200 )
        /\ ( pc = "drop_instance" /\ instances_clone # <<>> /\ instances_clone' # instances_clone )
            => /\ table' = table
               /\ pc' = "drop_instance"
               /\ current_sleep_duration' = current_sleep_duration
               /\ instances_clone' = Tail(instances_clone)
               /\ destroy_calls' = destroy_calls \cup {Head(instances_clone)}
        /\ ( pc = "drop_instance" /\ pc' # pc )
            => /\ pc' = "ensure_sufficient_instances"
               /\ destroy_calls = Marked
               /\ \A id \in DestroyFailed :
                    /\ id \in DOMAIN instances'
                    /\ instances'[id] = instances[id]
                    /\ instances'[id].should_drop
               /\ DOMAIN instances' = DOMAIN instances \ instances_dropped
        /\ ( pc = "check_contemplant_verification" /\ pc' # pc )
            => /\ pc' = "drop_instance"
               /\ Range(instances_clone')
                    = {id \in DOMAIN instances' : instances'[id].should_drop}
      ]_vars

\* two marked instances were attempted: the destroy of one failed, the destroy
\* of the other succeeded, and the pass is about to close
DestroyFailureKeepsWitness ==
    /\ pc = "drop_instance"
    /\ instances_clone = <<>>
    /\ Cardinality(DestroyFailed) = 1
    /\ Cardinality(instances_dropped) = 1
    /\ destroy_calls = Marked

\* ------------------------------------------------------------------ C28
\* a rent call of the refill has just been answered with a failure
FailedRentStep ==
    /\ pc = "request_new_instance"
    /\ rent_outcome' = "failed"
    /\ ( i' # i \/ pc' # pc )

\* C28  A failed rent moves on: after a failed rent of the refill the next
\* rent call is for the next offer of the filtered list, with the accepted
\* instances kept aside and the table untouched; when the failed offer was the
\* last one, the pass ends normally (the loop is back at recv), every instance
\* accepted so far is inserted and the table holds fewer than number_instances
\* instances.  A Tick whose destroy pass leaves the table short of the target
\* asks for offers again.
FailedRentMovesOn ==
    [][ /\ FailedRentStep =>
             IF i < Len(offers)
             THEN /\ pc' = "request_new_instance"
                  /\ i' = i + 1
                  /\ offers' = offers
                  /\ new_instances' = new_instances
                  /\ table' = table
             ELSE /\ pc' = "recv"
                  /\ instances' = InsertAll(instances, new_instances)
                  /\ \A k \in 1..Len(new_instances) :
                       /\ new_instances[k].instance_id \in DOMAIN instances'
                       /\ instances'[new_instances[k].instance_id].offer.id
                            \in {new_instances[j].offer.id : j \in 1..Len(new_instances)}
                  /\ Cardinality(DOMAIN instances') < config.number_instances
        /\ ( /\ pc = "ensure_sufficient_instances"
             /\ pc' # pc
             /\ Cardinality(DOMAIN instances) < config.number_instances )
            => /\ pc' = "find_offers"
               /\ required_instances' = config.number_instances - Cardinality(DOMAIN instances)
      ]_vars

\* a refill that needed two instances ended on a failed rent of the last
\* offer, with one instance accepted before it and now in the table
FailedRentMovesOnWitness ==
    /\ AfterPass
    /\ rent_outcome = "failed"
    /\ Len(new_instances) = 1
    /\ new_instances[1].instance_id \in DOMAIN instances
    /\ Size = 1
    /\ config.number_instances = 2

\* ------------------------------------------------------------------ C29
\* no offers request and no rent call was made since the Tick began
NoRefillCall == ~request_offers_result.called /\ rent_outcome = "none"

\* C29  The refill makes no marketplace call when it cannot or need not rent:
\* ensure_sufficient_instances leaves the table as the destroy pass left it;
\* when the table holds number_instances instances (or more) the Tick ends
\* there, no offers request and no rent call made; when find_offers fails the
\* Tick ends there, the table unchanged and no rent call made.
RefillNoCall ==
    [][ /\ ( pc = "ensure_sufficient_instances" /\ pc' # pc )
            => /\ table' = table
               /\ NoRefillCall
               /\ Size >= config.number_instances
                    => ( pc' = "recv" /\ NoRefillCall' /\ new_instances' = <<>> )
        /\ ( /\ pc = "find_offers"
             /\ pc' # pc
             /\ request_offers_result'.called
             /\ ~request_offers_result'.ok )
            => /\ pc' = "recv"
               /\ table' = table
               /\ rent_outcome' = "none"
               /\ new_instances' = <<>>
      ]_vars

\* a Tick that destroyed an instance and then found the offers request
\* failing: it is over with the table still short of the target
RefillNoCallWitness ==
    /\ AfterPass
    /\ request_offers_result.called
    /\ ~request_offers_result.ok
    /\ rent_outcome = "none"
    /\ Size < config.number_instances
    /\ Size > 0

\* ------------------------------------------------------------------ C30
\* C30  Verify semantics: a Verify sets contemplant_verified of the first
\* instance, in iteration order, rented from the offer and changes nothing
\* else: no other field, no other instance, not the set of instances nor their
\* order; for an offer no instance was rented from, the table is unchanged; in
\* both cases the HTTP caller, whose command was sent, gets 200.  A verified
\* instance that stays in the table stays verified, whatever step is taken (a
\* record that a refill overwrites with a newly rented instance of the same id
\* is a new instance).
VerifySemantics ==
    [][ /\ \A offer_id \in CommandOfferIds :
             HandleVerifyInstance(offer_id) =>
                 /\ iter_order' = iter_order
                 /\ verify_http_status(client_verify_result) = 200
                 /\ IF NoInstanceOf(offer_id)
                    THEN instances' = instances
                    ELSE LET hit == FirstWithOffer(offer_id)
                         IN /\ instances[hit].offer.id = offer_id
                            /\ instances' = [instances EXCEPT ![hit].contemplant_verified = TRUE]
        /\ \A id \in DOMAIN instances \cap DOMAIN instances' :
             ( instances[id].contemplant_verified /\ ~Replaced(id) )
             => instances'[id].contemplant_verified
      ]_vars

\* the last command was a Verify and, of two unmarked instances, one is
\* verified and the other is not
VerifySemanticsWitness ==
    /\ pc = "recv"
    /\ command = "VerifyInstance"
    /\ Size = 2
    /\ \E id, other \in DOMAIN instances :
         /\ instances[id].contemplant_verified
         /\ ~instances[id].should_drop
         /\ ~instances[other].contemplant_verified
         /\ ~instances[other].should_drop

\* ------------------------------------------------------------------ C31
\* the loop has just taken a GetAll from the channel and handled it
GetAllStep == command' = "GetAll" /\ taken' # taken

\* C31  GetAll is a pure snapshot: handling a GetAll leaves the table and its
\* order unchanged; every command sent before it was handled before it; the
\* reply, and what instances() returns to its caller, is the table as it is
\* when the GetAll is handled; and no other step (a Drop, a Verify, any step
\* of a Tick, the passing of time) changes what a caller has received.
GetAllSnapshot ==
    [][ /\ GetAllStep =>
             /\ table' = table
             /\ \A k \in 1..Len(Pending') : Pending'[k].seq > taken'
             /\ taken' = taken + 1
             /\ pc' = "recv" =>
                  /\ resp'.snapshot = instances
                  /\ instances_received'.some
                  /\ instances_received'.snapshot = instances
        /\ ~GetAllStep => instances_received' = instances_received
      ]_vars

\* a caller holds a snapshot with the instance unmarked and unverified, and
\* the table has since changed: the instance is now marked
GetAllSnapshotWitness ==
    /\ instances_received.some
    /\ pc = "recv"
    /\ command = "Drop"
    /\ \E id \in DOMAIN instances \cap DOMAIN instances_received.snapshot :
         /\ instances[id].should_drop
         /\ ~instances_received.snapshot[id].should_drop

\* ------------------------------------------------------------------ C32
\* the instance under id was not marked before the step (or was not there, or
\* its record is replaced by the step) and is marked after it
NewlyMarked(id) ==
    /\ instances'[id].should_drop
    /\ ( id \notin DOMAIN instances \/ ~instances[id].should_drop \/ Replaced(id) )

\* the step handles a Drop that names the offer of the instance under id
DroppedByOffer(id) ==
    /\ pc = "recv"
    /\ id \in DOMAIN instances
    /\ \E offer_id \in CommandOfferIds :
         /\ HandleDrop(offer_id)
         /\ instances[id].offer.id = offer_id

\* the step is the deadline step of a Tick and finds the instance under id
\* unverified and older than the timeout
MarkedOverdue(id) ==
    /\ DeadlineStep
    /\ id \in DOMAIN instances
    /\ ~instances[id].contemplant_verified
    /\ instances[id].time_since_creation > config.contemplant_verification_timeout_secs

\* C32  should_drop has only two causes: a step marks an instance only if it
\* handles a Drop naming the instance's offer id while the instance is in
\* the table, or if it is the deadline step of a Tick that finds the instance
\* unverified with age strictly greater than the timeout.  So the deadline
\* step leaves every instance that is verified, or no older than the timeout,
\* as it was, and the destroy pass calls destroy only for marked instances.
ShouldDropCauses ==
    [][ /\ \A id \in DOMAIN instances' :
             NewlyMarked(id) => ( DroppedByOffer(id) \/ MarkedOverdue(id) )
        /\ DeadlineStep =>
             \A id \in DOMAIN instances :
                 ( \/ instances[id].contemplant_verified
                   \/ instances[id].time_since_creation
                        <= config.contemplant_verification_timeout_secs )
                 => instances'[id] = instances[id]
        /\ \A id \in destroy_calls' \ destroy_calls :
             id \in DOMAIN instances /\ instances[id].should_drop
      ]_vars

\* the deadline step of a Tick has just run: an unverified instance whose age
\* is exactly the timeout is unmarked, and a verified one, dropped before, is
\* the only one the destroy pass will visit
ShouldDropCausesWitness ==
    /\ pc = "drop_instance"
    /\ destroy_calls = {}
    /\ \E id, other \in DOMAIN instances :
         /\ ~instances[id].contemplant_verified
         /\ instances[id].time_since_creation = config.contemplant_verification_timeout_secs
         /\ ~instances[id].should_drop
         /\ instances[other].contemplant_verified
         /\ instances[other].should_drop
         /\ instances_clone = << other >>

\* ------------------------------------------------------------------ C33
\* the instance under id is in the table and marked
Draining(id) == id \in DOMAIN instances /\ instances[id].should_drop

\* C33  Draining instances are eventually removed: while Ticks keep being
\* handled (the loop is not left) and the destroy of an instance does not fail
\* forever, an instance that is marked is eventually no longer in the table as
\* a marked instance; and every destroy pass visits each marked instance of
\* the table exactly once, one destroy call per visit.
DrainingRemoved ==
    /\ \A id \in InstanceIds :
         [] ( Draining(id) => <> ( ~Draining(id) \/ pc = "loop_exited" ) )
    /\ [][ /\ DeadlineStep =>
                /\ Range(instances_clone') = {id \in DOMAIN instances' : Draining(id)'}
                /\ Len(instances_clone') = Cardinality(Range(instances_clone'))
           /\ ( pc = "drop_instance" /\ instances_clone # <<>> /\ pc' = pc
                   /\ instances_clone' # instances_clone )
               => /\ instances_clone' = Tail(instances_clone)
                  /\ destroy_calls' = destroy_calls \cup {Head(instances_clone)}
                  /\ Head(instances_clone) \notin destroy_calls
         ]_vars

\* a destroy pass is over in which the destroy of a marked instance failed:
\* the instance is still in the table, for the next Tick to try again
DrainingRemovedWitness ==
    /\ pc = "ensure_sufficient_instances"
    /\ \E id \in DOMAIN instances : Draining(id)
    /\ Size = config.number_instances

\* ------------------------------------------------------------------ C34
\* startup is in progress: the query is being validated or the initial fill runs
Starting ==
    pc \in {"validate_query", "create_initial_instances", "initial_request_new_instance"}

\* validation or the initial fill failed and startup was given up
StartupFailed == pc = "exit"

\* no command was sent or handled and no reply was made
NothingStarted ==
    /\ sent = 0
    /\ channel = <<>>
    /\ waiting = <<>>
    /\ command = "None"
    /\ resp = NoResp

\* C34  Startup ordering: the query is validated first and the initial fill
\* starts only when the validation found at least number_instances offers
\* (and at least one); the fill is followed by the loop or by the end of the
\* startup, never by the validation again; while startup is in progress, and
\* for ever after it failed, no command is sent (neither by the HTTP handlers
\* nor by the ticker) and none is handled, and the table is empty; the loop
\* starts parked on recv with the table made of the instances the initial fill
\* accepted, number_instances of them; once started it never goes back.
StartupOrder ==
    [][ /\ ( Starting \/ StartupFailed ) => ( NothingStarted /\ instances = EmptyTable )
        /\ pc = "validate_query" =>
             pc' \in {"validate_query", "create_initial_instances", "exit"}
        /\ ( pc = "validate_query" /\ pc' = "create_initial_instances" )
            => /\ request_offers_result'.ok
               /\ Len(offers') >= config.number_instances
               /\ Len(offers') > 0
        /\ ( Starting /\ pc # "validate_query" ) =>
             pc' \in {"create_initial_instances", "initial_request_new_instance", "recv", "exit"}
        /\ ( Starting /\ ~Starting' /\ ~StartupFailed' )
            => /\ pc = "initial_request_new_instance"
               /\ pc' = "recv"
               /\ NothingStarted'
               /\ Len(new_instances') = config.number_instances
               /\ instances' = InsertAll(EmptyTable, new_instances')
        /\ StartupFailed => ( StartupFailed' /\ NothingStarted' /\ instances' = EmptyTable )
        /\ ~( Starting \/ StartupFailed ) => ~( Starting' \/ StartupFailed' )
      ]_vars

\* the loop has started on the initial fill's instance and is parked on recv:
\* a first command was sent and waits in the channel, none was handled yet
StartupOrderWitness ==
    /\ pc = "recv"
    /\ command = "None"
    /\ Size = config.number_instances
    /\ sent = 1
    /\ Len(channel) = 1
    /\ taken = 0

\* ------------------------------------------------------------------ C35
\* C35  No instance leaked by a failed initial fill: when the startup was
\* given up, every instance a rent call of the initial fill accepted is in the
\* table of a running loop or a destroy call was made for it.
NoLeakOnFailedFill ==
    StartupFailed =>
        \A k \in 1..Len(new_instances) :
            \/ ( LoopRunning /\ new_instances[k].instance_id \in DOMAIN instances )
            \/ new_instances[k].instance_id \in destroy_calls

\* ------------------------------------------------------------------ C36
\* the offers of the accepted instances, in the order of acceptance
AcceptedOffers(pairs) == [k \in 1..Len(pairs) |-> pairs[k].offer]

\* a rent call of the initial fill has just been answered
InitialRentStep ==
    /\ pc = "initial_request_new_instance"
    /\ ( pc' # pc \/ i' # i \/ consecutive_rate_limited' # consecutive_rate_limited )

\* C36  The initial fill terminates: with runs of rate-limited answers that
\* end, the startup eventually ends, in the running loop or given up.  An
\* accepted or failed rent moves to the next offer and a rate-limited one stays
\* on the same offer; the instances accepted so far come from distinct offers
\* among those already tried, in list order (an offer yields at most one
\* instance); the fill ends in the loop with exactly number_instances
\* accepted instances, or is given up when the offers are used up.
InitialFillTerminates ==
    /\ <> ( pc \in {"recv", "exit"} )
    /\ [][ InitialRentStep =>
             /\ rent_outcome' \in {"accepted", "failed"} =>
                  ( pc' = pc => i' = i + 1 )
             /\ rent_outcome' = "rate_limited" =>
                  ( /\ pc' = pc
                    /\ i' = i
                    /\ AcceptedOffers(new_instances') = AcceptedOffers(new_instances) )
             /\ AcceptedOffers(new_instances') \in SubSeqs(SubSeq(offers, 1, i))
             /\ Len(new_instances') <= Len(new_instances) + 1
             /\ pc' \in {"initial_request_new_instance", "recv", "exit"}
             /\ pc' = "recv" => Len(new_instances') = config.number_instances
             /\ pc' = "exit" =>
                  ( i = Len(offers) /\ Len(new_instances') < config.number_instances )
         ]_vars

\* the fill ended in the loop after a failed rent and a rate-limited one: two
\* instances from two of three offers
InitialFillTerminatesWitness ==
    /\ pc = "recv"
    /\ command = "None"
    /\ Len(new_instances) = 2
    /\ Size = 2
    /\ new_instances[1].offer = Catalogue[1]
    /\ new_instances[2].offer = Catalogue[3]
    /\ current_sleep_duration > config.vast_api_call_backoff_secs

\* ------------------------------------------------------------------ C37
\* C37  Every Tick terminates: whatever the marketplace answers, a Tick in
\* progress is eventually over, the loop parked on recv again.  Its steps only
\* go forward: one get_instances call; one destroy call for each marked
\* instance of the clone, which shrinks by one per call; at most one
\* find_offers call; rent calls that each move to the next filtered offer or
\* end the pass (a rate-limited answer ends it), so at most one per offer.
TickTerminates ==
    /\ [] ( InPass => <> ( pc = "recv" ) )
    /\ [][ ( InPass /\ pc' # "recv" ) =>
             /\ TickPosition(pc') >= TickPosition(pc)
             /\ pc' = pc =>
                  \/ /\ pc = "drop_instance"
                     /\ Len(instances_clone') = Len(instances_clone) - 1
                     /\ destroy_calls' = destroy_calls \cup {Head(instances_clone)}
                     /\ Head(instances_clone) \notin destroy_calls
                  \/ /\ pc = "request_new_instance"
                     /\ i' = i + 1
                     /\ i' <= Len(offers)
                     /\ offers' = offers
                     /\ rent_outcome' # "rate_limited"
                  \/ /\ instances' = AgedTable(instances, 1)
                     /\ UNCHANGED << i, offers, instances_clone, destroy_calls >>
         ]_vars

\* a Tick is over that ended on a rate-limited answer after one accepted rent
\* of a refill that needed two
TickTerminatesWitness ==
    /\ AfterPass
    /\ rent_outcome = "rate_limited"
    /\ Len(new_instances) = 1
    /\ config.number_instances = 2
    /\ Size = 1
    /\ new_instances[1].instance_id \in DOMAIN instances

\* ------------------------------------------------------------------ C38
\* a rent call of a Tick's refill has just been answered
RefillRentStep ==
    /\ pc = "request_new_instance"
    /\ ( pc' # pc \/ i' # i )

\* C38  No over-renting and no untracked rent in a Tick: the refill computes
\* its need as number_instances minus the size of the table and keeps it to
\* its end; a rent call is made only while fewer than that were accepted, an
\* accepted rent adds one instance to those accepted and no answer takes one
\* away, so the accepted rents never exceed the need; when the Tick ends every
\* accepted instance is in the table under its id, unmarked, as the record of
\* a rent accepted under that id.
NoOverRent ==
    [][ /\ ( pc = "ensure_sufficient_instances" /\ pc' = "find_offers" )
            => required_instances' = config.number_instances - Size
        /\ ( pc \in {"find_offers", "request_new_instance"} /\ pc' # "recv" )
            => required_instances' = required_instances
        /\ RefillRentStep =>
             /\ Len(new_instances) < required_instances
             /\ Len(new_instances') <= required_instances
             /\ Len(new_instances') =
                  Len(new_instances) + ( IF rent_outcome' = "accepted" THEN 1 ELSE 0 )
             /\ \A k \in 1..Len(new_instances) :
                  /\ new_instances'[k].instance_id = new_instances[k].instance_id
                  /\ new_instances'[k].offer = new_instances[k].offer
             /\ pc' = "recv" =>
                  \A k \in 1..Len(new_instances') :
                      LET id == new_instances'[k].instance_id
                      IN /\ id \in DOMAIN instances'
                         /\ ~instances'[id].should_drop
                         /\ \E j \in 1..Len(new_instances') : instances'[id] = new_instances'[j]
      ]_vars

\* a Tick destroyed one of two instances and its refill rented one in its
\* place: the new instance is in the table, unmarked, beside the older one
NoOverRentWitness ==
    /\ AfterPass
    /\ rent_outcome = "accepted"
    /\ config.number_instances = 2
    /\ Len(new_instances) = 1
    /\ Size = 2
    /\ \E id, other \in DOMAIN instances :
         /\ id # other
         /\ instances[id] = new_instances[1]
         /\ ~instances[id].should_drop
         /\ instances[other].time_since_creation > instances[id].time_since_creation

====
